---- MODULE Spec2Model ----
(***************************************************************************)
(* Model of the Pokemon power-level demo: the browser client (app.js: the  *)
(* polling reconciliation loop fetchPokemons, changePower, the click       *)
(* handler and the card view), the equality checker (deepCompare.js) and   *)
(* the in-memory server (server.js: the seed, GET /api/pokemons and        *)
(* POST /api/pokemons/:id/power), joined by a network that may delay,      *)
(* reorder and lose messages.                                              *)
(***************************************************************************)
EXTENDS Bags, FiniteSets, Integers, Sequences, TLC

(***************************************************************************)
(* Bounds of the model.                                                    *)
(***************************************************************************)
MaxLen == 2         \* longest snapshot handed to the reconciliation loop
MaxChange == 2      \* largest magnitude of a POSTed change
MaxInFlight == 2    \* most HTTP exchanges of the page in flight at a time
MaxCards == 2       \* most cards in the container when the view effects run alone
MaxSize == 3        \* most properties, nested ones included, of a compared value
MaxPosts == 3       \* most POSTs the server log keeps since the store was filled

Ids == {1, 2, 3}
Powers == {0, 1}     \* the powerLevels of the model (0..99 and up in the source)
TopPower == CHOOSE p \in Powers : \A q \in Powers : q <= p
Changes == -MaxChange..MaxChange

(***************************************************************************)
(* JavaScript values.  Every value is a record of the same shape so that   *)
(* values of different types can be told apart: t is the type tag, n the   *)
(* number, s the string and o the own enumerable properties of an object   *)
(* (a function from keys to values).                                       *)
(***************************************************************************)
NoKeys == <<>>
Undefined == [t |-> "undefined", n |-> 0, s |-> "", o |-> NoKeys]
Null == [t |-> "null", n |-> 0, s |-> "", o |-> NoKeys]
Num(n) == [t |-> "number", n |-> n, s |-> "", o |-> NoKeys]
Str(s) == [t |-> "string", n |-> 0, s |-> s, o |-> NoKeys]
Obj(f) == [t |-> "object", n |-> 0, s |-> "", o |-> f]

\* typeof v: null reports "object"
TypeOf(v) == IF v.t = "null" THEN "object" ELSE v.t

\* Object.keys(v), as a set: deepEqual uses only its size and membership
Keys(v) == DOMAIN v.o

\* v[key]: a missing property reads as undefined
Get(v, key) == IF key \in DOMAIN v.o THEN v.o[key] ELSE Undefined

\* a === b.  Two objects are identical only when they are the same
\* allocation; every object the program compares comes from a separate
\* JSON parse, so two objects are never identical.
StrictEq(a, b) == a.t = b.t /\ a.t # "object" /\ a.n = b.n /\ a.s = b.s

\* deepEqual without the comparison of the numbers of keys (line 28)
RECURSIVE deepEqualNoKeyCount(_, _)
deepEqualNoKeyCount(obj1, obj2) ==
  IF StrictEq(obj1, obj2) THEN TRUE
  ELSE IF TypeOf(obj1) # "object" \/ obj1.t = "null"
          \/ TypeOf(obj2) # "object" \/ obj2.t = "null" THEN FALSE
  ELSE \A key \in Keys(obj1) :
         /\ key \in Keys(obj2)
         /\ IF TypeOf(Get(obj1, key)) = "object" /\ TypeOf(Get(obj2, key)) = "object"
            THEN deepEqualNoKeyCount(Get(obj1, key), Get(obj2, key))
            ELSE StrictEq(Get(obj1, key), Get(obj2, key))

RECURSIVE deepEqual(_, _)
deepEqual(obj1, obj2) ==
  IF StrictEq(obj1, obj2) THEN TRUE
  ELSE IF TypeOf(obj1) # "object" \/ obj1.t = "null"
          \/ TypeOf(obj2) # "object" \/ obj2.t = "null" THEN FALSE
  ELSE IF Cardinality(Keys(obj1)) # Cardinality(Keys(obj2)) THEN FALSE
  ELSE \A key \in Keys(obj1) :
         /\ key \in Keys(obj2)
         /\ IF TypeOf(Get(obj1, key)) = "object" /\ TypeOf(Get(obj2, key)) = "object"
            THEN deepEqual(Get(obj1, key), Get(obj2, key))
            ELSE StrictEq(Get(obj1, key), Get(obj2, key))

\* isEqual comparing the identity of the two objects, which are never the same
IsEqualByReference(a, b) == StrictEq(a, b)

\* the comparison app.js calls on two records
isEqual(a, b) == deepEqual(a, b)

(***************************************************************************)
(* Entity records and snapshots.                                           *)
(***************************************************************************)
Entity(id, name, image, powerLevel) ==
  Obj([id |-> Num(id), name |-> Str(name), image |-> Str(image),
       powerLevel |-> Num(powerLevel)])

IdOf(p) == p.o.id.n
PowerOf(p) == p.o.powerLevel.n

\* the records a server may send for an id: entity 2 comes under two names,
\* the others with two power levels
Variants(id) ==
  IF id = 2 THEN {Entity(id, "a", "u", 0), Entity(id, "b", "u", 0)}
  ELSE {Entity(id, "a", "u", 0), Entity(id, "a", "u", 1)}
Entities == UNION { Variants(id) : id \in Ids }

Range(s) == { s[i] : i \in DOMAIN s }
IdsOf(s) == { IdOf(s[i]) : i \in DOMAIN s }
DistinctIds(s) == \A i, j \in DOMAIN s : IdOf(s[i]) = IdOf(s[j]) => i = j

SeqsUpTo(S, n) == UNION { [1..k -> S] : k \in 0..n }

\* the fetched snapshots the reconciliation is run on: ids pairwise distinct
Snapshots == { s \in SeqsUpTo(Entities, MaxLen) : DistinctIds(s) }

\* localPokemons.filter(p => p.id !== id)
RECURSIVE FilterOutId(_, _)
FilterOutId(s, id) ==
  IF s = <<>> THEN <<>>
  ELSE IF ~StrictEq(Get(Head(s), "id"), id)
       THEN <<Head(s)>> \o FilterOutId(Tail(s), id)
       ELSE FilterOutId(Tail(s), id)

\* array.findIndex(p => p.id === id), 1-based, 0 when there is none
FindIndex(s, id) ==
  IF \E i \in DOMAIN s : StrictEq(Get(s[i], "id"), id)
  THEN CHOOSE i \in DOMAIN s :
         /\ StrictEq(Get(s[i], "id"), id)
         /\ \A j \in 1..(i - 1) : ~StrictEq(Get(s[j], "id"), id)
  ELSE 0

(***************************************************************************)
(* The view: pokemonContainer holds the cards in document order.  A card   *)
(* shows what createPokemonCard interpolated into it or updatePokemonUI    *)
(* wrote into it later.                                                    *)
(***************************************************************************)
createPokemonCard(pokemon) ==
  [id |-> Get(pokemon, "id"), image |-> Get(pokemon, "image"),
   alt |-> Get(pokemon, "name"), name |-> Get(pokemon, "name"),
   powerLevel |-> Get(pokemon, "powerLevel")]

\* document.getElementById(`pokemon-${id}`): the first card with that id,
\* 1-based, 0 when there is none
CardIndex(cards, id) ==
  IF \E i \in DOMAIN cards : StrictEq(cards[i].id, id)
  THEN CHOOSE i \in DOMAIN cards :
         /\ StrictEq(cards[i].id, id)
         /\ \A j \in 1..(i - 1) : ~StrictEq(cards[j].id, id)
  ELSE 0

RECURSIVE renderCards(_)
renderCards(pokemons) ==
  IF pokemons = <<>> THEN <<>>
  ELSE <<createPokemonCard(Head(pokemons))>> \o renderCards(Tail(pokemons))

\* renderPokemons: clear the container, then append one card per record
renderPokemons(cards, pokemons) == renderCards(pokemons)

updatePokemonUI(cards, updatedPokemon) ==
  LET i == CardIndex(cards, Get(updatedPokemon, "id")) IN
  IF i = 0 THEN cards
  ELSE LET card == cards[i]
           newImage == ~StrictEq(Get(updatedPokemon, "image"), card.image)
       IN [cards EXCEPT ![i] =
             [id |-> card.id,
              powerLevel |-> Get(updatedPokemon, "powerLevel"),
              name |-> Get(updatedPokemon, "name"),
              image |-> IF newImage THEN Get(updatedPokemon, "image") ELSE card.image,
              alt |-> IF newImage THEN Get(updatedPokemon, "name") ELSE card.alt]]

\* pokemonContainer.removeChild(card) for the card getElementById finds
RemoveAt(s, i) == SubSeq(s, 1, i - 1) \o SubSeq(s, i + 1, Len(s))

\* a removal without the test of line 214, taking the last card when
\* getElementById finds none
removeCardUnguarded(cards, id) ==
  LET i == CardIndex(cards, id) IN
  IF i = 0 THEN SubSeq(cards, 1, Len(cards) - 1) ELSE RemoveAt(cards, i)

removeCard(cards, id) ==
  LET i == CardIndex(cards, id) IN
  IF i = 0 THEN cards ELSE RemoveAt(cards, i)

(***************************************************************************)
(* The diff-and-apply step of fetchPokemons.  A state of the step is the   *)
(* local snapshot, the cards and the operations emitted so far.            *)
(***************************************************************************)
Op(kind, record) == [op |-> kind, record |-> record]

\* MergeOne with the assignment of line 195 left out
MergeOneKeepsLocal(st, serverPokemon) ==
  LET i == FindIndex(st.local, Get(serverPokemon, "id")) IN
  IF i # 0
  THEN IF ~isEqual(st.local[i], serverPokemon)
       THEN [local |-> st.local,
             cards |-> updatePokemonUI(st.cards, serverPokemon),
             ops |-> Append(st.ops, Op("Update", serverPokemon))]
       ELSE st
  ELSE [local |-> Append(st.local, serverPokemon),
        cards |-> Append(st.cards, createPokemonCard(serverPokemon)),
        ops |-> Append(st.ops, Op("Create", serverPokemon))]

\* the body of data.forEach for one serverPokemon
MergeOne(st, serverPokemon) ==
  LET i == FindIndex(st.local, Get(serverPokemon, "id")) IN
  IF i # 0
  THEN IF ~isEqual(st.local[i], serverPokemon)
       THEN [local |-> [st.local EXCEPT ![i] = serverPokemon],
             cards |-> updatePokemonUI(st.cards, serverPokemon),
             ops |-> Append(st.ops, Op("Update", serverPokemon))]
       ELSE st
  ELSE [local |-> Append(st.local, serverPokemon),
        cards |-> Append(st.cards, createPokemonCard(serverPokemon)),
        ops |-> Append(st.ops, Op("Create", serverPokemon))]

\* the forEach of line 185 walking data from its end
RECURSIVE MergeLoopBackwards(_, _)
MergeLoopBackwards(st, data) ==
  IF data = <<>> THEN st
  ELSE MergeLoopBackwards(MergeOne(st, data[Len(data)]),
                          SubSeq(data, 1, Len(data) - 1))

RECURSIVE MergeLoop(_, _)
MergeLoop(st, data) ==
  IF data = <<>> THEN st
  ELSE MergeLoop(MergeOne(st, Head(data)), Tail(data))

\* DeleteOne looking the id up in localPokemons, not in data
DeleteOneLooksInLocal(st, localPokemon, data) ==
  IF FindIndex(st.local, Get(localPokemon, "id")) = 0
  THEN [local |-> FilterOutId(st.local, Get(localPokemon, "id")),
        cards |-> removeCard(st.cards, Get(localPokemon, "id")),
        ops |-> Append(st.ops, Op("Delete", localPokemon))]
  ELSE st

\* the body of the second forEach for one localPokemon
DeleteOne(st, localPokemon, data) ==
  IF FindIndex(data, Get(localPokemon, "id")) = 0
  THEN [local |-> FilterOutId(st.local, Get(localPokemon, "id")),
        cards |-> removeCard(st.cards, Get(localPokemon, "id")),
        ops |-> Append(st.ops, Op("Delete", localPokemon))]
  ELSE st

\* the delete scan walking the array from its end
RECURSIVE DeleteLoopBackwards(_, _, _)
DeleteLoopBackwards(st, scanned, data) ==
  IF scanned = <<>> THEN st
  ELSE DeleteLoopBackwards(DeleteOne(st, scanned[Len(scanned)], data),
                           SubSeq(scanned, 1, Len(scanned) - 1), data)

\* forEach walks the array localPokemons named when the scan started: the
\* filter inside the callback builds a new array and leaves that one whole
RECURSIVE DeleteLoop(_, _, _)
DeleteLoop(st, scanned, data) ==
  IF scanned = <<>> THEN st
  ELSE DeleteLoop(DeleteOne(st, Head(scanned), data), Tail(scanned), data)

\* reconcile whose first load renders the cards and forgets line 181
reconcileForgetsFirstLoad(local, cards, data) ==
  IF Len(local) = 0
  THEN [local |-> local,
        cards |-> renderPokemons(cards, data),
        ops |-> [i \in DOMAIN data |-> Op("Create", data[i])]]
  ELSE LET merged == MergeLoop([local |-> local, cards |-> cards, ops |-> <<>>], data)
       IN DeleteLoop(merged, merged.local, data)

\* reconcile without the delete scan of lines 206-218
reconcileNoDeleteScan(local, cards, data) ==
  IF Len(local) = 0
  THEN [local |-> data,
        cards |-> renderPokemons(cards, data),
        ops |-> [i \in DOMAIN data |-> Op("Create", data[i])]]
  ELSE MergeLoop([local |-> local, cards |-> cards, ops |-> <<>>], data)

\* lines 179-219: what one successful cycle makes of (localPokemons, cards)
reconcile(local, cards, data) ==
  IF Len(local) = 0
  THEN [local |-> data,
        cards |-> renderPokemons(cards, data),
        ops |-> [i \in DOMAIN data |-> Op("Create", data[i])]]
  ELSE LET merged == MergeLoop([local |-> local, cards |-> cards, ops |-> <<>>], data)
       IN DeleteLoop(merged, merged.local, data)

(***************************************************************************)
(* The server (server.js).                                                 *)
(***************************************************************************)
\* the ids the seed asks PokeAPI for (five in the source, two here)
pokemonIds == <<1, 2>>
\* an id no entity of the store has
UnknownId == 9
RequestIds == Range(pokemonIds) \cup {UnknownId}

\* responses.map(...): name and image come from PokeAPI, powerLevel is
\* Math.floor(Math.random() * 100)
seedStore(power) ==
  [i \in DOMAIN pokemonIds |-> Entity(pokemonIds[i], "a", "u", power[i])]

\* the update without the floor of line 328
clampPowerNoFloor(powerLevel, change) == powerLevel + change

\* the update assigning the change where line 325 adds it
clampPowerAssigns(powerLevel, change) ==
  IF change < 0 THEN 0 ELSE change

\* pokemon.powerLevel += change; if (pokemon.powerLevel < 0) pokemon.powerLevel = 0
clampPower(powerLevel, change) ==
  IF powerLevel + change < 0 THEN 0 ELSE powerLevel + change

\* postPower that adds the entity it does not find
postPowerUpserts(store, pokemonId, change) ==
  LET i == FindIndex(store, Num(pokemonId))
      pokemon == IF i # 0
                 THEN Obj([store[i].o EXCEPT
                        !.powerLevel = Num(clampPower(PowerOf(store[i]), change))])
                 ELSE Entity(pokemonId, "a", "u", clampPower(0, change))
  IN [store |-> IF i # 0 THEN [store EXCEPT ![i] = pokemon]
                ELSE Append(store, pokemon),
      res |-> [status |-> 200, success |-> TRUE, pokemon |-> pokemon,
               message |-> ""]]

\* postPower that takes the entity out of the store and appends the
\* updated one
postPowerMovesToEnd(store, pokemonId, change) ==
  LET i == FindIndex(store, Num(pokemonId)) IN
  IF i # 0
  THEN LET pokemon ==
             Obj([store[i].o EXCEPT
                    !.powerLevel = Num(clampPower(PowerOf(store[i]), change))])
       IN [store |-> Append(RemoveAt(store, i), pokemon),
           res |-> [status |-> 200, success |-> TRUE, pokemon |-> pokemon,
                    message |-> ""]]
  ELSE [store |-> store,
        res |-> [status |-> 404, success |-> FALSE, pokemon |-> Undefined,
                 message |-> "Pokemon not found"]]

\* app.post('/api/pokemons/:id/power'): the store and the response
postPower(store, pokemonId, change) ==
  LET i == FindIndex(store, Num(pokemonId)) IN
  IF i # 0
  THEN LET pokemon ==
             Obj([store[i].o EXCEPT
                    !.powerLevel = Num(clampPower(PowerOf(store[i]), change))])
       IN [store |-> [store EXCEPT ![i] = pokemon],
           res |-> [status |-> 200, success |-> TRUE, pokemon |-> pokemon,
                    message |-> ""]]
  ELSE [store |-> store,
        res |-> [status |-> 404, success |-> FALSE, pokemon |-> Undefined,
                 message |-> "Pokemon not found"]]

(***************************************************************************)
(* State.                                                                  *)
(***************************************************************************)
VARIABLES
  pokemons,        \* server.js: the in-memory store
  seeded,          \* server.js: the start-up fetchPokemons has settled
  getReqs,         \* GET /api/pokemons requests sent and not yet answered
  getResps,        \* bag of GET responses on their way to the client
  postReqs,        \* bag of POST requests [id, change] on their way
  postResps,       \* bag of POST responses on their way to the client
  localPokemons,   \* app.js: the local snapshot
  container,       \* app.js: the cards of pokemonContainer
  polling,         \* app.js: the interval of line 258 is set
  last,            \* what the last client handler that ran saw and did
  served           \* the last POST the server log below kept

vars == <<pokemons, seeded, getReqs, getResps, postReqs, postResps,
          localPokemons, container, polling, last, served>>
serverVars == <<pokemons, seeded>>
netVars == <<getReqs, getResps, postReqs, postResps>>
clientVars == <<localPokemons, container, polling, last>>

\* the record kept of a client handler: the snapshot and cards it found,
\* the body it was handed, the operations it emitted, the alert it raised
\* (a run that starts with the history switched off keeps none)
Handled(kind, data, result, ops, alert) ==
  IF last.kind = "off" THEN last
  ELSE [kind |-> kind, P |-> localPokemons, cards |-> container, data |-> data,
        result |-> result, ops |-> ops, alert |-> alert]
NoAlert == ""
NoResult == [status |-> 0, success |-> FALSE, pokemon |-> Undefined, message |-> ""]

\* the record kept of a POST the server handled: the request, the store it
\* found and the response it sent; base is the store found by the first POST
\* that found one, and log the requests from that one on, in arrival order
NothingServed ==
  [id |-> 0, change |-> 0, before |-> <<>>, after |-> <<>>, res |-> NoResult,
   base |-> <<>>, log |-> <<>>]

Init ==
  /\ pokemons = <<>>
  /\ seeded = FALSE
  /\ getReqs = 1                \* line 252: the first fetchPokemons()
  /\ getResps = EmptyBag
  /\ postReqs = EmptyBag
  /\ postResps = EmptyBag
  /\ localPokemons = <<>>
  /\ container = <<>>
  /\ polling = TRUE             \* line 258: setInterval(fetchPokemons, 5000)
  /\ last = [kind |-> "load", P |-> <<>>, cards |-> <<>>, data |-> <<>>,
             result |-> NoResult, ops |-> <<>>, alert |-> NoAlert]
  /\ served = NothingServed

(***************************************************************************)
(* Server actions.                                                         *)
(***************************************************************************)
\* the start-up fetchPokemons resolves: the store is filled
ServerSeed ==
  /\ ~seeded
  /\ \E power \in [DOMAIN pokemonIds -> Powers] : pokemons' = seedStore(power)
  /\ seeded' = TRUE
  /\ UNCHANGED <<netVars, clientVars, served>>

\* the server process is started again: the module body runs afresh, with
\* an empty store and a new start-up fetchPokemons; the page stays open
ServerRestart ==
  /\ seeded
  /\ pokemons' = <<>>
  /\ seeded' = FALSE
  /\ served' = NothingServed      \* the log starts again with the store
  /\ UNCHANGED <<netVars, clientVars>>

\* the start-up fetchPokemons rejects: the catch logs, the store stays empty
ServerSeedFail ==
  /\ ~seeded
  /\ seeded' = TRUE
  /\ UNCHANGED <<pokemons, netVars, clientVars, served>>

\* app.get('/api/pokemons'): res.json(pokemons) copies the store as it is now
ServerGet ==
  /\ getReqs > 0
  /\ getReqs' = getReqs - 1
  /\ getResps' = getResps (+) SetToBag({pokemons})
  /\ UNCHANGED <<serverVars, postReqs, postResps, clientVars, served>>

\* app.post(...) for a request of the page
ServerPost ==
  \E req \in BagToSet(postReqs) :
    LET r == postPower(pokemons, req.id, req.change) IN
    /\ \A i \in DOMAIN r.store : PowerOf(r.store[i]) <= TopPower
    /\ pokemons' = r.store
    /\ postReqs' = postReqs (-) SetToBag({req})
    /\ postResps' = postResps (+) SetToBag({r.res})
    /\ UNCHANGED <<seeded, getReqs, getResps, clientVars, served>>

\* app.post(...) for a click in another page, whose response goes there
ServerPostOther ==
  \E pokemonId \in RequestIds, change \in {1, -1} :
    LET r == postPower(pokemons, pokemonId, change) IN
    /\ \A i \in DOMAIN r.store : PowerOf(r.store[i]) <= TopPower
    /\ pokemons' = r.store
    /\ UNCHANGED <<seeded, netVars, clientVars, served>>

(***************************************************************************)
(* Client actions (app.js).                                                *)
(***************************************************************************)
InFlight == getReqs + BagCardinality(getResps)
            + BagCardinality(postReqs) + BagCardinality(postResps)

\* setInterval(fetchPokemons, 5000) fires: fetchPokemons runs up to its
\* first await, whatever is still in flight
Tick ==
  /\ polling
  /\ InFlight < MaxInFlight
  /\ getReqs' = getReqs + 1
  /\ UNCHANGED <<serverVars, getResps, postReqs, postResps, clientVars, served>>

\* a cycle that applies a snapshot on the first load only
ApplyFetchFirstLoadOnly(data) ==
  LET r == IF Len(localPokemons) = 0
           THEN reconcile(localPokemons, container, data)
           ELSE [local |-> localPokemons, cards |-> container, ops |-> <<>>] IN
  /\ localPokemons' = r.local
  /\ container' = r.cards
  /\ last' = Handled("fetchOk", data, NoResult, r.ops, NoAlert)
  /\ UNCHANGED polling

\* fetchPokemons resumes with a 200 response whose body parses to data:
\* lines 179-219 run without interruption
ApplyFetch(data) ==
  LET r == reconcile(localPokemons, container, data) IN
  /\ localPokemons' = r.local
  /\ container' = r.cards
  /\ last' = Handled("fetchOk", data, NoResult, r.ops, NoAlert)
  /\ UNCHANGED polling

FetchOk ==
  \E data \in BagToSet(getResps) :
    /\ getResps' = getResps (-) SetToBag({data})
    /\ ApplyFetch(data)
    /\ UNCHANGED <<serverVars, getReqs, postReqs, postResps, served>>

\* what the catch of fetchPokemons does: console.error, nothing else
FetchFailures == {"network error", "status not ok", "body does not parse"}

\* a catch that empties the page and stops polling
catchFetchResets(error) ==
  /\ last' = Handled("fetchFail", <<>>, NoResult, <<>>, NoAlert)
  /\ localPokemons' = <<>>
  /\ container' = <<>>
  /\ polling' = FALSE

catchFetch(error) ==
  /\ last' = Handled("fetchFail", <<>>, NoResult, <<>>, NoAlert)
  /\ UNCHANGED <<localPokemons, container, polling>>

\* a fetch cycle fails: the request never gets an answer, or the answer
\* comes back with a status outside 200-299 or a body that does not parse
FetchFail ==
  /\ \/ /\ getReqs > 0
        /\ getReqs' = getReqs - 1
        /\ UNCHANGED getResps
     \/ /\ \E data \in BagToSet(getResps) :
             getResps' = getResps (-) SetToBag({data})
        /\ UNCHANGED getReqs
  /\ \E error \in FetchFailures : catchFetch(error)
  /\ UNCHANGED <<serverVars, postReqs, postResps, served>>

\* a click listener that also writes the new power level into the local
\* snapshot before the server answers
ClickOptimistic ==
  \E i \in DOMAIN container, change \in {1, -1} :
    LET k == FindIndex(localPokemons, container[i].id) IN
    /\ InFlight < MaxInFlight
    /\ postReqs' = postReqs (+) SetToBag({[id |-> container[i].id.n, change |-> change]})
    /\ localPokemons' =
         IF k = 0 THEN localPokemons
         ELSE [localPokemons EXCEPT ![k] =
                 Obj([@.o EXCEPT !.powerLevel = Num(clampPower(@.n, change))])]
    /\ UNCHANGED <<serverVars, getReqs, getResps, postResps, container,
                   polling, last, served>>

\* the click listener: an Increase or Decrease button of a card is
\* clicked, changePower(id, +1 or -1) runs up to its first await
Click ==
  \E i \in DOMAIN container, change \in {1, -1} :
    /\ InFlight < MaxInFlight
    /\ postReqs' = postReqs (+) SetToBag({[id |-> container[i].id.n, change |-> change]})
    /\ UNCHANGED <<serverVars, getReqs, getResps, postResps, clientVars, served>>

\* changePower that writes the local snapshot and leaves out the
\* updatePokemonUI of line 133
changePowerDoneNoUI(local, cards, res) ==
  IF ~(res.status \in 200..299)
  THEN [kind |-> "postFail", local |-> local, cards |-> cards,
        alert |-> "Failed to update power level. Please try again."]
  ELSE IF res.success
  THEN LET index == FindIndex(local, Get(res.pokemon, "id")) IN
       [kind |-> "postOk",
        local |-> IF index # 0 /\ ~isEqual(local[index], res.pokemon)
                  THEN [local EXCEPT ![index] = res.pokemon]
                  ELSE local,
        cards |-> cards,
        alert |-> NoAlert]
  ELSE [kind |-> "postRefused", local |-> local, cards |-> cards,
        alert |-> res.message]

\* changePower from response.ok on, for a response that arrived
changePowerDone(local, cards, res) ==
  IF ~(res.status \in 200..299)
  THEN [kind |-> "postFail", local |-> local, cards |-> cards,
        alert |-> "Failed to update power level. Please try again."]
  ELSE IF res.success
  THEN LET index == FindIndex(local, Get(res.pokemon, "id")) IN
       [kind |-> "postOk",
        local |-> IF index # 0 /\ ~isEqual(local[index], res.pokemon)
                  THEN [local EXCEPT ![index] = res.pokemon]
                  ELSE local,
        cards |-> updatePokemonUI(cards, res.pokemon),
        alert |-> NoAlert]
  ELSE [kind |-> "postRefused", local |-> local, cards |-> cards,
        alert |-> res.message]

PostDone ==
  \E res \in BagToSet(postResps) :
    LET r == changePowerDone(localPokemons, container, res) IN
    /\ postResps' = postResps (-) SetToBag({res})
    /\ localPokemons' = r.local
    /\ container' = r.cards
    /\ last' = Handled(r.kind, <<>>, res, <<>>, r.alert)
    /\ UNCHANGED <<serverVars, getReqs, getResps, postReqs, polling, served>>

\* the fetch of changePower rejects: the request or its answer is lost
PostLost ==
  /\ \/ /\ \E req \in BagToSet(postReqs) :
             postReqs' = postReqs (-) SetToBag({req})
        /\ UNCHANGED postResps
     \/ /\ \E res \in BagToSet(postResps) :
             postResps' = postResps (-) SetToBag({res})
        /\ UNCHANGED postReqs
  /\ last' = Handled("postLost", <<>>, NoResult, <<>>,
                     "Failed to update power level. Please try again.")
  /\ UNCHANGED <<serverVars, getReqs, getResps, localPokemons, container,
                 polling, served>>

(***************************************************************************)
(* Specifications.                                                         *)
(***************************************************************************)
\* the whole system: the server, the page and the network between them
Next ==
  \/ ServerSeed
  \/ ServerSeedFail
  \/ ServerRestart
  \/ ServerGet
  \/ ServerPost
  \/ ServerPostOther
  \/ Tick
  \/ FetchOk
  \/ FetchFail
  \/ Click
  \/ PostDone
  \/ PostLost

Spec == Init /\ [][Next]_vars

\* the reconciliation loop against any server: every cycle succeeds and
\* is handed any snapshot with pairwise distinct ids
FetchAny ==
  /\ \E data \in Snapshots : ApplyFetch(data)
  /\ UNCHANGED <<serverVars, netVars, served>>

NextReconcile == FetchAny

SpecReconcile == Init /\ [][NextReconcile]_vars

\* the reconciliation loop handed snapshots that may repeat an id: any
\* sequence of the two records of id 1 and one record of id 2
SnapshotsWithDuplicates ==
  SeqsUpTo(Variants(1) \cup {Entity(2, "a", "u", 0)}, MaxLen)

FetchAnyWithDuplicates ==
  /\ \E data \in SnapshotsWithDuplicates : ApplyFetch(data)
  /\ UNCHANGED <<serverVars, netVars, served>>

NextDuplicates == FetchAnyWithDuplicates

SpecDuplicates == Init /\ [][NextDuplicates]_vars

\* the server under POSTs of any clients, each kept in the server log
PostAny ==
  \E pokemonId \in RequestIds, change \in Changes :
    LET r == postPower(pokemons, pokemonId, change) IN
    /\ \A i \in DOMAIN r.store : PowerOf(r.store[i]) <= TopPower
    /\ pokemons' = r.store
    /\ Len(served.log) < MaxPosts
    /\ served' = [id |-> pokemonId, change |-> change, before |-> pokemons,
                  after |-> r.store, res |-> r.res,
                  base |-> IF served.base = <<>> THEN pokemons ELSE served.base,
                  log |-> IF served.base = <<>>
                          THEN <<[id |-> pokemonId, change |-> change]>>
                          ELSE Append(served.log,
                                      [id |-> pokemonId, change |-> change])]
    /\ UNCHANGED <<seeded, netVars, clientVars>>

NextServer ==
  \/ ServerSeed
  \/ ServerSeedFail
  \/ ServerRestart
  \/ PostAny

SpecServer == Init /\ [][NextServer]_vars

\* the whole system under a fair timer and network: the interval keeps
\* firing, and fetch cycles keep succeeding: of the requests that keep
\* being sent some reach the server, and of the responses that keep coming
\* back some are handled as successes
\* (the interval fires whatever is in flight, so the cap on the exchanges
\* in flight must not starve it: the fairness of Tick is strong; FetchOk is
\* enabled exactly when a response is on its way, so the last conjunct is
\* SF_vars(FetchOk) with the enabling condition written out)
Fairness ==
  /\ SF_vars(Tick)
  /\ SF_vars(ServerGet)
  /\ ([]<>(getResps # EmptyBag) => []<><<FetchOk>>_vars)
  /\ WF_vars(ServerPost \/ PostLost)     \* every fetch of changePower settles
  /\ WF_vars(PostDone \/ PostLost)

\* Init with the history of the client handlers switched off
InitLive ==
  /\ pokemons = <<>>
  /\ seeded = FALSE
  /\ getReqs = 1
  /\ getResps = EmptyBag
  /\ postReqs = EmptyBag
  /\ postResps = EmptyBag
  /\ localPokemons = <<>>
  /\ container = <<>>
  /\ polling = TRUE
  /\ last = [kind |-> "off", P |-> <<>>, cards |-> <<>>, data |-> <<>>,
             result |-> NoResult, ops |-> <<>>, alert |-> NoAlert]
  /\ served = NothingServed

SpecLive == InitLive /\ [][Next]_vars /\ Fairness

\* deepEqual on its own, called on any two values: primitives, null and
\* records nested up to two deep with keys "a" and "b"
Leaves == {Undefined, Null, Num(1), Str("1")}
RecordsOver(V) ==
  { Obj(f) : f \in UNION { [K -> V] : K \in SUBSET {"a", "b"} } }
RECURSIVE SizeOf(_)
SizeOf(v) ==
  IF v.t # "object" THEN 0
  ELSE LET keys == DOMAIN v.o
           size[K \in SUBSET keys] ==
             IF K = {} THEN 0
             ELSE LET k == CHOOSE x \in K : TRUE
                  IN 1 + SizeOf(v.o[k]) + size[K \ {k}]
       IN size[keys]
CompareValues ==
  { v \in Leaves \cup RecordsOver(Leaves \cup RecordsOver(Leaves)) :
      SizeOf(v) <= MaxSize }

\* the call is about to be made on the pair last.data
InitEqual ==
  /\ pokemons = <<>>
  /\ seeded = FALSE
  /\ getReqs = 1
  /\ getResps = EmptyBag
  /\ postReqs = EmptyBag
  /\ postResps = EmptyBag
  /\ localPokemons = <<>>
  /\ container = <<>>
  /\ polling = TRUE
  /\ \E obj1, obj2 \in CompareValues :
       last = [kind |-> "pair", P |-> <<>>, cards |-> <<>>, data |-> <<obj1, obj2>>,
               result |-> NoResult, ops |-> <<>>, alert |-> NoAlert]
  /\ served = NothingServed

\* deepEqual(obj1, obj2) and deepEqual(obj2, obj1) return; last.ops keeps
\* the two results
CallDeepEqual ==
  /\ last.kind = "pair"
  /\ last' = Handled("deepEqual", last.data, NoResult,
                     <<deepEqual(last.data[1], last.data[2]),
                       deepEqual(last.data[2], last.data[1])>>, NoAlert)
  /\ UNCHANGED <<serverVars, netVars, localPokemons, container, polling, served>>

NextEqual == CallDeepEqual

SpecEqual == InitEqual /\ [][NextEqual]_vars

\* the three view effects on their own, applied to the container in any
\* order with any record; last.ops keeps the last two effects applied
LastTwo(ops) == IF Len(ops) > 2 THEN SubSeq(ops, Len(ops) - 1, Len(ops)) ELSE ops

ViewEffect(kind, r, cards) ==
  /\ container' = cards
  /\ last' = Handled(kind, <<r>>, NoResult, LastTwo(Append(last.ops, Op(kind, r))),
                     NoAlert)
  /\ UNCHANGED <<serverVars, netVars, localPokemons, polling, served>>

\* lines 200-201: createPokemonCard and appendChild
ViewCreate ==
  \E r \in Entities :
    /\ Len(container) < MaxCards
    /\ ViewEffect("Create", r, Append(container, createPokemonCard(r)))

\* lines 75-99: updatePokemonUI
ViewUpdate ==
  \E r \in Entities : ViewEffect("Update", r, updatePokemonUI(container, r))

\* lines 213-216: getElementById and removeChild
ViewDelete ==
  \E r \in Entities : ViewEffect("Delete", r, removeCard(container, Get(r, "id")))

NextView ==
  \/ ViewCreate
  \/ ViewUpdate
  \/ ViewDelete

SpecView == Init /\ [][NextView]_vars

(***************************************************************************)
(* Properties of the reconciliation loop, checked under SpecReconcile.     *)
(***************************************************************************)
\* a and b hold the same records: the same ids, each once, and under each
\* id the same value in every field; the order is ignored
SameRecords(a, b) ==
  /\ DistinctIds(a)
  /\ DistinctIds(b)
  /\ Range(a) = Range(b)

\* the position of the record with this id in s (ids pairwise distinct)
PosOfId(s, id) == CHOOSE i \in DOMAIN s : IdOf(s[i]) = id

\* the last client handler was a successful fetch cycle
Fetched == last.kind = "fetchOk"
SteadyCycle == Fetched /\ last.P # <<>>

\* C1: after a fetch cycle has applied a snapshot F with pairwise distinct
\* ids, the local snapshot holds exactly the records of F, in some order.
C1_LocalHoldsFetched ==
  Fetched => SameRecords(localPokemons, last.data)

\* a steady-state cycle that had to change the snapshot and left it in an
\* order other than that of F
C1_Witness ==
  /\ SteadyCycle
  /\ ~SameRecords(last.P, last.data)
  /\ Len(last.data) = 2
  /\ localPokemons # last.data
  /\ \E i \in DOMAIN last.ops : last.ops[i].op = "Update"

\* the minimal diff of P against F, as a set of operations
MinimalDiff(P, F) ==
  { Op("Update", f) : f \in { g \in Range(F) :
        \E p \in Range(P) : IdOf(p) = IdOf(g) /\ p # g } }
  \cup { Op("Create", f) : f \in { g \in Range(F) : IdOf(g) \notin IdsOf(P) } }
  \cup { Op("Delete", p) : p \in { q \in Range(P) : IdOf(q) \notin IdsOf(F) } }

\* C2: a steady-state cycle (P non-empty, ids distinct in P and in F)
\* emits exactly the operations of the minimal diff, each of them once:
\* nothing for a record of F that P holds with equal content.
C2_EmitsMinimalDiff ==
  SteadyCycle =>
    /\ Range(last.ops) = MinimalDiff(last.P, last.data)
    /\ Len(last.ops) = Cardinality(MinimalDiff(last.P, last.data))

\* one cycle that emitted an Update, a Create and a Delete
C2_Witness ==
  /\ SteadyCycle
  /\ \E i, j, k \in DOMAIN last.ops :
       /\ last.ops[i].op = "Update"
       /\ last.ops[j].op = "Create"
       /\ last.ops[k].op = "Delete"

\* what a card shows of a record
Shows(card, record) ==
  /\ card.id = Get(record, "id")
  /\ card.name = Get(record, "name")
  /\ card.image = Get(record, "image")
  /\ card.powerLevel = Get(record, "powerLevel")

\* C3: bootstrap: a successful fetch of F into an empty local snapshot
\* emits one Create per element of F, in the order of F, and nothing else,
\* renders one card per element in that order, and leaves the local
\* snapshot equal to F.
C3_Bootstrap ==
  (Fetched /\ last.P = <<>>) =>
    /\ Len(last.ops) = Len(last.data)
    /\ \A i \in DOMAIN last.data : last.ops[i] = Op("Create", last.data[i])
    /\ Len(container) = Len(last.data)
    /\ \A i \in DOMAIN last.data : Shows(container[i], last.data[i])
    /\ localPokemons = last.data

\* a bootstrap of two records
C3_Witness ==
  /\ Fetched
  /\ last.P = <<>>
  /\ Len(last.data) = 2
  /\ Len(container) = 2

\* C4: idempotence: when a fetch cycle has applied F and the next handler
\* is a fetch cycle handed a snapshot of the same content (in any order,
\* the empty one included), this second cycle emits no operation and leaves
\* the local snapshot and the cards as they are.
C4_Idempotent ==
  [][ (Fetched /\ last'.kind = "fetchOk" /\ last'.P = localPokemons
         /\ SameRecords(last'.data, last.data))
      => (last'.ops = <<>> /\ localPokemons' = localPokemons
            /\ container' = container) ]_vars

\* a second cycle handed the two records of the first in the other order
C4_Witness ==
  /\ SteadyCycle
  /\ last.ops = <<>>
  /\ Len(last.data) = 2
  /\ SameRecords(last.data, last.P)
  /\ last.data # last.P

\* the local snapshot when the delete scan starts: P with each record that
\* F has under the same id put in its place, then the records of F whose
\* id P lacks, in the order of F
RECURSIVE NewOf(_, _)
NewOf(F, P) ==
  IF F = <<>> THEN <<>>
  ELSE IF IdOf(Head(F)) \in IdsOf(P) THEN NewOf(Tail(F), P)
       ELSE <<Head(F)>> \o NewOf(Tail(F), P)
AtDeleteScan(P, F) ==
  [i \in DOMAIN P |->
     IF IdOf(P[i]) \in IdsOf(F) THEN F[PosOfId(F, IdOf(P[i]))] ELSE P[i]]
  \o NewOf(F, P)

\* C5: in a steady-state cycle the Creates and Updates come in the order
\* of the fetched snapshot, and every Delete comes after all of them, the
\* Deletes in the order their records have in the local snapshot when the
\* delete scan starts.
C5_OperationOrder ==
  SteadyCycle =>
    \A i, j \in DOMAIN last.ops :
      i < j =>
        LET a == last.ops[i]
            b == last.ops[j]
        IN /\ a.op = "Delete" => b.op = "Delete"
           /\ (a.op # "Delete" /\ b.op # "Delete") =>
                PosOfId(last.data, IdOf(a.record)) < PosOfId(last.data, IdOf(b.record))
           /\ (a.op = "Delete" /\ b.op = "Delete") =>
                PosOfId(AtDeleteScan(last.P, last.data), IdOf(a.record))
                  < PosOfId(AtDeleteScan(last.P, last.data), IdOf(b.record))

\* a cycle that emitted a Create and then two Deletes
C5_Witness ==
  /\ SteadyCycle
  /\ Len(last.ops) = 3
  /\ last.ops[1].op = "Create"
  /\ last.ops[2].op = "Delete"
  /\ last.ops[3].op = "Delete"

(***************************************************************************)
(* Snapshots that repeat an id, checked under SpecDuplicates.              *)
(***************************************************************************)
\* the positions of the records of this id in s
PositionsOf(s, id) == { i \in DOMAIN s : IdOf(s[i]) = id }
\* the last record of this id in s
LastOfId(s, id) ==
  s[CHOOSE i \in PositionsOf(s, id) : \A j \in PositionsOf(s, id) : j <= i]
\* the local snapshot holds one record of this id, the last one F has
LastWins(id) ==
  /\ Cardinality(PositionsOf(localPokemons, id)) = 1
  /\ \A i \in PositionsOf(localPokemons, id) :
       localPokemons[i] = LastOfId(last.data, id)
\* the ids F has more than once
Repeated(F) == { id \in IdsOf(F) : Cardinality(PositionsOf(F, id)) >= 2 }

\* C15 as stated: after a cycle that applied a snapshot F, the local
\* snapshot holds, for every id F has more than once, exactly one record
\* and it is the last one of F, whether the local snapshot was empty before
\* or not.
C15_DuplicatesLastWins ==
  Fetched => \A id \in Repeated(last.data) : LastWins(id)

\* C15 as amended: last-wins holds in a steady-state cycle on a local
\* snapshot with pairwise distinct ids; a bootstrap makes the local
\* snapshot F itself and keeps every record of a repeated id.
C15_DuplicatesLastWinsSteady ==
  /\ (SteadyCycle /\ DistinctIds(last.P)) =>
       \A id \in Repeated(last.data) : LastWins(id)
  /\ (Fetched /\ last.P = <<>>) => localPokemons = last.data

\* a steady-state cycle was handed two different records of an id the
\* local snapshot did not have
C15_Witness ==
  /\ SteadyCycle
  /\ DistinctIds(last.P)
  /\ Len(last.data) = 2
  /\ IdOf(last.data[1]) = IdOf(last.data[2])
  /\ last.data[1] # last.data[2]
  /\ IdOf(last.data[1]) \notin IdsOf(last.P)
  /\ LastWins(IdOf(last.data[1]))

(***************************************************************************)
(* Properties of the page and the server together, checked under Spec.     *)
(***************************************************************************)
\* C6: a fetch cycle that fails (no answer, a status outside 200-299, a
\* body that does not parse) leaves the local snapshot and the cards as
\* they were, leaves the polling timer set, and the timer can fire again.
C6_FailedFetchChangesNothing ==
  last.kind = "fetchFail" =>
    /\ localPokemons = last.P
    /\ container = last.cards
    /\ polling
    /\ InFlight < MaxInFlight => ENABLED Tick

\* a failed cycle on a page that shows cards
C6_Witness ==
  /\ last.kind = "fetchFail"
  /\ localPokemons # <<>>
  /\ container # <<>>

\* C7 as stated: only the apply step of a fetch cycle changes the local
\* snapshot.
C7_OnlyFetchChangesLocal ==
  [][localPokemons' # localPokemons => FetchOk]_vars

\* C7 as amended: only the apply step of a fetch cycle and the success
\* branch of changePower change the local snapshot; the click listener, the
\* timer tick, a failed fetch and a failed changePower leave it as it is.
C7_OnlyHandlersChangeLocal ==
  [][localPokemons' # localPokemons
       => (FetchOk \/ (PostDone /\ last'.kind = "postOk"))]_vars

\* a changePower response that replaced a record of the local snapshot
C7_Witness ==
  /\ last.kind = "postOk"
  /\ localPokemons # last.P

\* C8: once the success response of changePower has been handled, the
\* local snapshot holds the record the server returned and the card of that
\* id shows its powerLevel, whatever fetch cycles came in between.
C8_PostOkUpdatesViewAndLocal ==
  last.kind = "postOk" =>
    /\ \E i \in DOMAIN localPokemons : localPokemons[i] = last.result.pokemon
    /\ \E i \in DOMAIN container :
         /\ container[i].id = Get(last.result.pokemon, "id")
         /\ container[i].powerLevel = Get(last.result.pokemon, "powerLevel")

\* the store has no entity of this id
UnknownToServer(id) == \A i \in DOMAIN pokemons : IdOf(pokemons[i]) # id

\* the server handles a POST of the page for an id it does not know
C9_ServerStep ==
  \A req \in BagToSet(postReqs) :
    (/\ UnknownToServer(req.id)
     /\ postReqs' = postReqs (-) SetToBag({req})
     /\ postResps' # postResps)
    => /\ pokemons' = pokemons
       /\ \E res \in BagToSet(postResps') :
            /\ res.status = 404
            /\ ~res.success
            /\ postResps' = postResps (+) SetToBag({res})

\* the page has handled a 404
C9_PageState ==
  (last.kind = "postFail" /\ last.result.status = 404) =>
    /\ last.alert # NoAlert
    /\ localPokemons = last.P
    /\ container = last.cards

\* C9: a POST for an id unknown to the server leaves the store as it is and
\* is answered 404 with success false; the page then raises an alert and
\* changes neither the local snapshot nor a card.
C9_UnknownTargetChangesNothing ==
  [][C9_ServerStep]_vars /\ []C9_PageState

\* the page, showing cards, has handled a 404
C9_Witness ==
  /\ last.kind = "postFail"
  /\ last.result.status = 404
  /\ last.alert # NoAlert
  /\ container # <<>>

\* the store changes only finitely often
StoreSettles == <>[][pokemons' = pokemons]_pokemons

\* the local snapshot holds the records of the store
InSync == SameRecords(localPokemons, pokemons)

\* C11: if from some point on the store no longer changes, then under a
\* fair timer and network the local snapshot of the page eventually holds
\* the records of the store and keeps holding them, whatever responses
\* issued before that point arrive late and in whatever order.  The other
\* clients act through ServerPostOther; each of them is a page like this.
C11_EventuallyInSync == StoreSettles => <>[]InSync

\* a cycle brought the page back in line with the store while a response
\* issued for an older store is still on its way
C11_Witness ==
  /\ InSync
  /\ localPokemons # <<>>
  /\ \E data \in BagToSet(getResps) : ~SameRecords(data, pokemons)

\* the fetch cycles of the page between their fetch() and their apply step
FetchesInFlight == getReqs + BagCardinality(getResps)

\* C14: at every moment at most one fetch cycle of the page is in flight.
C14_CyclesNeverOverlap == FetchesInFlight <= 1

\* C16: the apply step of a fetch cycle runs as one step, so whatever
\* cycles and changePower calls are in flight and in whatever order their
\* responses arrive, right after each apply step (and until the next
\* handler of the page runs) the local snapshot holds the records the
\* response carried, and applying the same snapshot again would emit no
\* operation.
C16_ApplyStepAtomic ==
  Fetched =>
    /\ SameRecords(localPokemons, last.data)
    /\ reconcile(localPokemons, container, last.data).ops = <<>>

\* a response that no longer matches the store was applied to a page that
\* showed something else, while another response is still on its way
C16_Witness ==
  /\ SteadyCycle
  /\ last.ops # <<>>
  /\ ~SameRecords(last.data, pokemons)
  /\ \E data \in BagToSet(getResps) : ~SameRecords(data, last.data)

\* the container holds one card per record of the local snapshot and no
\* other card, and each card shows the powerLevel of its record
ViewMatchesLocal ==
  /\ Len(container) = Len(localPokemons)
  /\ \A i \in DOMAIN localPokemons :
       \E j \in DOMAIN container :
         /\ container[j].id = Get(localPokemons[i], "id")
         /\ container[j].powerLevel = Get(localPokemons[i], "powerLevel")
         /\ \A k \in DOMAIN container : container[k].id = container[j].id => k = j

\* C17: with fetched snapshots of pairwise distinct ids, after every apply
\* step of a fetch cycle and every success handler of changePower, in any
\* interleaving, the view matches the local snapshot.
C17_ViewMatchesLocal ==
  last.kind \in {"fetchOk", "postOk"} => ViewMatchesLocal

\* a changePower success handler changed a card of a page showing two
\* cards while a fetch cycle was in flight
C17_Witness ==
  /\ last.kind = "postOk"
  /\ container # last.cards
  /\ Len(container) = 2
  /\ FetchesInFlight > 0
  /\ ViewMatchesLocal

\* two stores with the same entities in the same order, alike in id, name
\* and image, and differing in the powerLevel of one entity at most
SameButOnePower(before, after) ==
  /\ Len(after) = Len(before)
  /\ \A i \in DOMAIN before :
       /\ Get(after[i], "id") = Get(before[i], "id")
       /\ Get(after[i], "name") = Get(before[i], "name")
       /\ Get(after[i], "image") = Get(before[i], "image")
       /\ Keys(after[i]) = Keys(before[i])
  /\ \A i, j \in DOMAIN before :
       (after[i] # before[i] /\ after[j] # before[j]) => i = j

\* the step answers a POST of the page for this request
PagePostAnswered(req) ==
  /\ postReqs' = postReqs (-) SetToBag({req})
  /\ BagCardinality(postResps') > BagCardinality(postResps)

\* the step answers a GET
GetAnswered ==
  /\ getReqs' < getReqs
  /\ BagCardinality(getResps') > BagCardinality(getResps)

\* C19: a POST changes nothing in the store but the powerLevel of the
\* entity it names: the other entities, every id, name and image, and the
\* number and order of the entities stay; a GET changes nothing in the
\* store.  (A step that leaves seeded as it is and changes the store is a
\* POST: only the seed and a restart change both.)
C19_PostFrame ==
  [][ /\ seeded' = seeded => SameButOnePower(pokemons, pokemons')
      /\ \A req \in BagToSet(postReqs) :
           PagePostAnswered(req) =>
             \A i \in DOMAIN pokemons :
               IdOf(pokemons[i]) # req.id =>
                 (i \in DOMAIN pokemons' /\ pokemons'[i] = pokemons[i])
      /\ GetAnswered => pokemons' = pokemons ]_vars

\* a POST for the first of two entities has been answered, and a GET
\* answered before it shows the store as it was: the same but for that
\* powerLevel
C19_Witness ==
  /\ Len(pokemons) = 2
  /\ \E res \in BagToSet(postResps) : res.success /\ res.pokemon = pokemons[1]
  /\ \E data \in BagToSet(getResps) :
       /\ Len(data) = 2
       /\ data[2] = pokemons[2]
       /\ PowerOf(data[1]) # PowerOf(pokemons[1])
       /\ SameButOnePower(data, pokemons)

(***************************************************************************)
(* Properties of the equality checker, checked under SpecEqual.            *)
(***************************************************************************)
\* structural equality: two records are equal iff they have the same keys
\* and equal values under each; anything else is equal iff it is the same
\* primitive or both are null
RECURSIVE StructEq(_, _)
StructEq(a, b) ==
  IF a.t = "object" /\ b.t = "object"
  THEN /\ DOMAIN a.o = DOMAIN b.o
       /\ \A k \in DOMAIN a.o : StructEq(a.o[k], b.o[k])
  ELSE a.t = b.t /\ a.n = b.n /\ a.s = b.s

\* C13: on every pair of values drawn from primitives, null and nested
\* records, deepEqual returns what structural equality gives, and returns
\* the same with its arguments exchanged.  (The keys of a record are a set
\* in this model: deepEqual uses Object.keys only for its length, for
\* membership and to visit every key, so their order cannot reach the
\* result.)
C13_DeepEqualIsStructural ==
  last.kind = "deepEqual" =>
    /\ last.ops[1] = StructEq(last.data[1], last.data[2])
    /\ last.ops[2] = last.ops[1]

\* two different nested records with the same keys were compared
C13_Witness ==
  /\ last.kind = "deepEqual"
  /\ last.data[1] = Obj([a |-> Num(1), b |-> Obj([a |-> Num(1)])])
  /\ last.data[2] = Obj([a |-> Num(1), b |-> Obj([a |-> Str("1")])])
  /\ last.ops = <<FALSE, FALSE>>

(***************************************************************************)
(* Properties of the view effects, checked under SpecView.                 *)
(***************************************************************************)
\* the cards of this id in a container
CardsOf(cards, id) == { i \in DOMAIN cards : cards[i].id = id }

\* the step applies this effect to the record the step before applied it to
Again(kind) ==
  /\ last.kind = kind
  /\ last'.kind = kind
  /\ last'.data = last.data

\* C12 as stated: each view effect applied twice in a row with the same
\* record leaves what applying it once leaves: one card of r.id after two
\* Creates, and a second Update or Delete that changes nothing.
C12_EffectsIdempotent ==
  [][ /\ Again("Create") =>
           Cardinality(CardsOf(container', Get(last'.data[1], "id"))) = 1
      /\ Again("Update") => container' = container
      /\ Again("Delete") => container' = container ]_vars

\* C12 as amended: a second Update changes nothing; a second Delete changes
\* nothing when the view held at most one card of r.id before the first; a
\* second Create appends a second card of r.id (the effect is not
\* idempotent: only the lookup of line 187 keeps the loop from applying it
\* twice).
C12_UpdateDeleteIdempotent ==
  [][ /\ Again("Create") =>
           /\ container' = Append(container, createPokemonCard(last'.data[1]))
           /\ Cardinality(CardsOf(container', Get(last'.data[1], "id"))) >= 2
      /\ Again("Update") => container' = container
      /\ (Again("Delete")
            /\ Cardinality(CardsOf(last.cards, Get(last.data[1], "id"))) <= 1)
           => container' = container ]_vars

\* the same record was created twice in a row and has two cards
C12_Witness ==
  /\ Len(last.ops) = 2
  /\ last.ops[1] = last.ops[2]
  /\ last.ops[2].op = "Create"
  /\ Cardinality(CardsOf(container, Get(last.data[1], "id"))) = 2

(***************************************************************************)
(* Properties of the server alone, checked under SpecServer.               *)
(***************************************************************************)
\* the last POST the server handled would have taken the value below 0
ServedBelowZero ==
  /\ FindIndex(served.before, Num(served.id)) # 0
  /\ PowerOf(served.before[FindIndex(served.before, Num(served.id))])
       + served.change < 0

\* C10: every entity of the store has powerLevel >= 0 in every reachable
\* state, and a POST that would take the value below 0 leaves it at 0 and
\* returns 0.
C10_PowerNeverNegative ==
  /\ \A i \in DOMAIN pokemons : PowerOf(pokemons[i]) >= 0
  /\ ServedBelowZero =>
       /\ PowerOf(served.after[FindIndex(served.before, Num(served.id))]) = 0
       /\ served.res.success
       /\ PowerOf(served.res.pokemon) = 0

\* a POST of -2 on a powerLevel of 1
C10_Witness ==
  /\ ServedBelowZero
  /\ served.change = -2
  /\ PowerOf(served.before[FindIndex(served.before, Num(served.id))]) = 1

\* the changes the log holds for this id, in arrival order
RECURSIVE ChangesFor(_, _)
ChangesFor(log, id) ==
  IF log = <<>> THEN <<>>
  ELSE IF Head(log).id = id THEN <<Head(log).change>> \o ChangesFor(Tail(log), id)
       ELSE ChangesFor(Tail(log), id)

\* max(0, value + change) applied to the changes one at a time
RECURSIVE ApplyInOrder(_, _)
ApplyInOrder(value, changes) ==
  IF changes = <<>> THEN value
  ELSE ApplyInOrder(IF value + Head(changes) > 0 THEN value + Head(changes) ELSE 0,
                    Tail(changes))

RECURSIVE NeverBelowZero(_, _)
NeverBelowZero(value, changes) ==
  \/ changes = <<>>
  \/ /\ value + Head(changes) >= 0
     /\ NeverBelowZero(value + Head(changes), Tail(changes))

RECURSIVE SumOf(_)
SumOf(changes) ==
  IF changes = <<>> THEN 0 ELSE Head(changes) + SumOf(Tail(changes))

\* C18: after any sequence of POSTs, whoever sent them, the powerLevel of
\* every entity is what applying max(0, value + change) to its changes one
\* at a time in arrival order gives, starting from the value the store had
\* before them; when no value on the way falls below 0 it is that value
\* plus the sum of the changes.
C18_NoLostUpdates ==
  served.base # <<>> =>
    /\ Len(pokemons) = Len(served.base)
    /\ \A i \in DOMAIN pokemons :
         LET changes == ChangesFor(served.log, IdOf(served.base[i]))
             start == PowerOf(served.base[i])
         IN /\ PowerOf(pokemons[i]) = ApplyInOrder(start, changes)
            /\ NeverBelowZero(start, changes) =>
                 PowerOf(pokemons[i]) = start + SumOf(changes)

\* POSTs of +1 and -1 for entity 1 with a POST for entity 2 between them
C18_Witness ==
  /\ Len(served.log) = 3
  /\ served.log[1] = [id |-> 1, change |-> 1]
  /\ served.log[2].id = 2
  /\ served.log[3] = [id |-> 1, change |-> -1]
  /\ PowerOf(served.base[1]) = 0
  /\ PowerOf(pokemons[1]) = 0

====
